---- MODULE Spec2Model ----
(***************************************************************************)
(* Verification model of mls-rs:                                           *)
(*   - SqLiteApplicationStorage (mls-rs-provider-sqlite/src/application.rs)*)
(*     a key-value store kept in the SQLite table kvs(key, value);         *)
(*   - Lifetime (mls-rs/src/tree_kem/lifetime.rs), the validity window;    *)
(*   - the ratchet tree and CommitApplier, whose code is not among the     *)
(*     source files at hand and is modelled from the design description.   *)
(* Strings are sequences of one-character strings, byte blobs sequences of *)
(* numbers.                                                                *)
(***************************************************************************)
EXTENDS Integers, Sequences, FiniteSets, TLC

VARIABLES
    kvs,    \* the rows of the table kvs, each <<key, value>>
    last,   \* the latest call on the store: operation, arguments, result,
            \* and the table before it
    call,   \* the call made on Lifetime
    ret,    \* what that call returned
    tree,   \* the member's ratchet tree: slot index -> slot
    commit, \* the latest operation on the tree (apply_commit, or a call of
            \* the node store): arguments, result, the tree before
    peer,   \* the ratchet tree of a second member of the group
    log,    \* the commits delivered to the group, in order
    applied,\* per member, how many commits of log it has applied
    faulted \* the members one of whose attempts has failed

storeVars == <<kvs, last>>

lifetimeVars == <<call, ret>>

treeVars == <<tree, commit>>

groupVars == <<peer, log, applied, faulted>>

vars == <<kvs, last, call, ret, tree, commit, peer, log, applied, faulted>>

\* What the store's operations leave alone.
notStore == <<lifetimeVars, treeVars, groupVars>>

(***************************************************************************)
(* Input domains of the store.                                             *)
(***************************************************************************)

\* Keys the callers store: plain text, mixed case, and keys holding the
\* LIKE metacharacters and the escape character.
KeyPool ==
    { <<"a">>, <<"A", "a">>, <<"$", "a">>, <<"%">>, <<"a", "_">> }

\* Prefixes the callers ask for.
Prefixes ==
    { <<>>, <<"a">>, <<"A">>, <<"$">>, <<"%">>, <<"_">>,
      <<"a", "_">>, <<"a", "%">>, <<"$", "_">>, <<"$", "a">> }

\* Values: opaque blobs, the empty blob included.
Values == { <<>>, <<7>> }

\* The table holds at most MaxRows rows.
MaxRows == 3

\* Keys and item lists of the batches given to transact_insert.
TxKeys == { <<"a">>, <<"%">> }

\* Batches hold at most MaxBatch items.
MaxBatch == 2

Item(key, value) == [key |-> key, value |-> value]

Items == { Item(k, v) : k \in TxKeys, v \in Values }

Batches == UNION { [1..n -> Items] : n \in 0..MaxBatch }

\* Where the SQL engine fails during transact_insert: nowhere, when the
\* transaction is started, at the i-th execute, or at the commit.
Faults(items) ==
    { [at |-> a, i |-> 0] : a \in {"none", "begin", "commit"} }
        \cup { [at |-> "execute", i |-> j] : j \in 1..Len(items) }

(***************************************************************************)
(* Results.                                                                *)
(***************************************************************************)

Ok(v) == [tag |-> "Ok", val |-> v]

\* sql_engine_error: every rusqlite error becomes SqlEngineError.
sql_engine_error == [tag |-> "Err", val |-> "SqlEngineError"]

None == [some |-> FALSE, v |-> <<>>]

Some(v) == [some |-> TRUE, v |-> v]

(***************************************************************************)
(* The SQL statements, over the set of rows of kvs.                        *)
(***************************************************************************)

Row(key, value) == <<key, value>>

RowsOfKey(rows, key) == { r \in rows : r[1] = key }

\* Mutants of INSERT_SQL: INSERT OR IGNORE (no overwrite); an upsert without
\* the WHERE clause (an equal value counts as a modified row).
INSERT_SQL_ignore(rows, key, value) ==
    IF RowsOfKey(rows, key) = {}
    THEN [rows |-> rows \cup {Row(key, value)}, changes |-> 1]
    ELSE [rows |-> rows, changes |-> 0]

INSERT_SQL_nowhere(rows, key, value) ==
    [rows |-> (rows \ RowsOfKey(rows, key)) \cup {Row(key, value)}, changes |-> 1]

\* INSERT INTO kvs (key, value) VALUES (?,?)
\*   ON CONFLICT(key) DO UPDATE SET value=excluded.value
\*   WHERE value != excluded.value
\* The new table and the number of rows changed.
INSERT_SQL(rows, key, value) ==
    LET conflict == RowsOfKey(rows, key)
        updated  == { r \in conflict : r[2] # value }
    IN  IF conflict = {}
        THEN [rows |-> rows \cup {Row(key, value)}, changes |-> 1]
        ELSE [rows    |-> (rows \ updated) \cup { Row(r[1], value) : r \in updated },
              changes |-> Cardinality(updated)]

\* SELECT value FROM kvs WHERE key = ?, read by query_row(..).optional():
\* the first row's value, or None when no row is returned.
SELECT_SQL(rows, key) ==
    LET found == RowsOfKey(rows, key)
    IN  IF found = {} THEN None ELSE Some((CHOOSE r \in found : TRUE)[2])

\* Mutant of DELETE_SQL: the rows are counted but stay in the table.
DELETE_SQL_keep(rows, key) ==
    [rows |-> rows, changes |-> Cardinality(RowsOfKey(rows, key))]

\* DELETE FROM kvs WHERE key = ?
DELETE_SQL(rows, key) ==
    LET found == RowsOfKey(rows, key)
    IN  [rows |-> rows \ found, changes |-> Cardinality(found)]

(***************************************************************************)
(* sanitize and the LIKE operator of SQLite.                               *)
(***************************************************************************)

\* str::replace(from, to) for a one-character pattern.
RECURSIVE replace(_, _, _)
replace(string, from, to) ==
    IF string = <<>> THEN <<>>
    ELSE (IF Head(string) = from THEN to ELSE <<Head(string)>>)
         \o replace(Tail(string), from, to)

\* string.replace('_', "$_").replace('%', "$%")
sanitize(string) ==
    replace(replace(string, "_", <<"$", "_">>), "%", <<"$", "%">>)

\* LIKE folds the case of ASCII letters.
Lower(c) == IF c = "A" THEN "a" ELSE c

\* string LIKE pattern ESCAPE '$': '%' matches any run of characters, '_'
\* any one character, and the character after '$' stands for itself; a
\* pattern ending in a lone '$' matches nothing.
RECURSIVE Like(_, _)
Like(pattern, string) ==
    IF pattern = <<>> THEN string = <<>>
    ELSE
      LET c == Head(pattern) IN
      CASE c = "$" ->
             /\ Len(pattern) >= 2
             /\ string # <<>>
             /\ Lower(pattern[2]) = Lower(Head(string))
             /\ Like(Tail(Tail(pattern)), Tail(string))
        [] c = "%" ->
             \E i \in 0..Len(string) :
                 Like(Tail(pattern), SubSeq(string, i + 1, Len(string)))
        [] c = "_" ->
             /\ string # <<>>
             /\ Like(Tail(pattern), Tail(string))
        [] OTHER ->
             /\ string # <<>>
             /\ Lower(c) = Lower(Head(string))
             /\ Like(Tail(pattern), Tail(string))

\* The pattern both prefix operations bind: sanitize(key_prefix) + '%'.
PrefixPattern(key_prefix) == sanitize(key_prefix) \o <<"%">>

\* SELECT key, value FROM kvs WHERE key LIKE ? ESCAPE '$'
SELECT_LIKE_SQL(rows, pattern) == { r \in rows : Like(pattern, r[1]) }

\* DELETE FROM kvs WHERE key LIKE ? ESCAPE '$'
DELETE_LIKE_SQL(rows, pattern) ==
    LET found == { r \in rows : Like(pattern, r[1]) }
    IN  [rows |-> rows \ found, changes |-> Cardinality(found)]

(***************************************************************************)
(* The store's operations.  ok is whether the SQL engine succeeds.         *)
(***************************************************************************)

Call(op, arg, res) == [op |-> op, arg |-> arg, res |-> res, before |-> kvs]

StoreInit ==
    /\ kvs = {}
    /\ last = [op |-> "new", arg |-> <<>>, res |-> Ok(0), before |-> {}]

Pending == [tag |-> "Pending"]

\* No call on Lifetime is under way.
LifetimeIdle ==
    /\ call = [fn |-> "none"]
    /\ ret = Pending

insert(key, value, ok) ==
    LET out == INSERT_SQL(kvs, key, value)
    IN  /\ ok => Cardinality(out.rows) <= MaxRows
        /\ kvs' = IF ok THEN out.rows ELSE kvs
        /\ last' = Call("insert", [key |-> key, value |-> value],
                        IF ok THEN Ok(out.changes) ELSE sql_engine_error)
        /\ UNCHANGED notStore

get(key, ok) ==
    /\ kvs' = kvs
    /\ last' = Call("get", [key |-> key],
                    IF ok THEN Ok(SELECT_SQL(kvs, key)) ELSE sql_engine_error)
    /\ UNCHANGED notStore

delete(key, ok) ==
    LET out == DELETE_SQL(kvs, key)
    IN  /\ kvs' = IF ok THEN out.rows ELSE kvs
        /\ last' = Call("delete", [key |-> key],
                        IF ok THEN Ok(out.changes) ELSE sql_engine_error)
        /\ UNCHANGED notStore

\* The items returned are Item(key, value), one per selected row.
get_by_prefix(key_prefix, ok) ==
    /\ kvs' = kvs
    /\ last' = Call("get_by_prefix", [key |-> key_prefix],
                    IF ok
                    THEN Ok({ Item(r[1], r[2]) :
                              r \in SELECT_LIKE_SQL(kvs, PrefixPattern(key_prefix)) })
                    ELSE sql_engine_error)
    /\ UNCHANGED notStore

delete_by_prefix(key_prefix, ok) ==
    LET out == DELETE_LIKE_SQL(kvs, PrefixPattern(key_prefix))
    IN  /\ kvs' = IF ok THEN out.rows ELSE kvs
        /\ last' = Call("delete_by_prefix", [key |-> key_prefix],
                        IF ok THEN Ok(out.changes) ELSE sql_engine_error)
        /\ UNCHANGED notStore

\* Mutant of Accumulate: the running total is dropped.
Accumulate_last(acc, rows) == rows

\* |rows| acc + rows
Accumulate(acc, rows) == acc + rows

\* items.iter().try_fold(0, ..) from item i on, inside the transaction: tx
\* is the table as the transaction sees it; the first failing execute ends
\* the fold.
RECURSIVE try_fold(_, _, _, _, _)
try_fold(tx, acc, i, items, fault) ==
    IF i > Len(items) THEN [tx |-> tx, res |-> Ok(acc)]
    ELSE IF fault.at = "execute" /\ fault.i = i
    THEN [tx |-> tx, res |-> sql_engine_error]
    ELSE LET out == INSERT_SQL(tx, items[i].key, items[i].value)
         IN  try_fold(out.rows, Accumulate(acc, out.changes), i + 1, items, fault)

\* Mutant of Rollback: the statements already executed stay in the table.
Rollback_none(rows, tx) == tx

\* The Transaction is dropped without a commit (an early return by `?`, or
\* a failed commit): it rolls back, the table is what it was at the start.
Rollback(rows, tx) == rows

\* The table and the result of transact_insert.
Transact(rows, items, fault) ==
    IF fault.at = "begin" THEN [rows |-> rows, res |-> sql_engine_error]
    ELSE LET folded == try_fold(rows, 0, 1, items, fault)
         IN  IF folded.res.tag = "Err"
             THEN [rows |-> Rollback(rows, folded.tx), res |-> folded.res]
             ELSE IF fault.at = "commit"
             THEN [rows |-> Rollback(rows, folded.tx), res |-> sql_engine_error]
             ELSE [rows |-> folded.tx, res |-> folded.res]

transact_insert(items, fault) ==
    LET out == Transact(kvs, items, fault)
    IN  /\ Cardinality(out.rows) <= MaxRows
        /\ kvs' = out.rows
        /\ last' = Call("transact_insert", [items |-> items, fault |-> fault], out.res)
        /\ UNCHANGED notStore

(***************************************************************************)
(* Lifetime.  MlsTime is its number of seconds since the epoch.  The model *)
(* checker's integers are 32 bits wide, so u64 is modelled as an unsigned  *)
(* word of U64_BITS bits; the hour the code subtracts keeps its value.     *)
(***************************************************************************)

U64_BITS == 30

U64_MAX == 2^U64_BITS - 1

\* Duration::from_secs(3600)
HOUR == 3600

\* The times tried are within MaxSmallTime seconds of the epoch, of the
\* hour and of the end of the u64 range.
MaxSmallTime == 2

Times ==
    (0..MaxSmallTime)
        \cup { HOUR - 1, HOUR, HOUR + 1, U64_MAX - HOUR }
        \cup { U64_MAX - d : d \in 0..MaxSmallTime }

NoTime == [some |-> FALSE, v |-> 0]

Lifetime(not_before, not_after) ==
    [not_before |-> not_before, not_after |-> not_after]

TimeOverflow == [tag |-> "Err", val |-> "TimeOverflow"]

\* A failed overflow check of the build aborts the call.
Panic == [tag |-> "Panic"]

SecondsCalls ==
    [fn : {"seconds"}, s : Times,
     maybe_not_before : {NoTime} \cup { Some(t) : t \in Times }, now : Times]

WithinCalls ==
    [fn : {"within_lifetime"},
     lifetime : { Lifetime(b, a) : b \in Times, a \in Times }, time : Times]

\* Mutant of checked_add: the sum wraps around.
wrapping_add(a, b) == Some((a + b) % (U64_MAX + 1))

\* u64::checked_add
checked_add(a, b) == IF a + b > U64_MAX THEN NoTime ELSE Some(a + b)

\* MlsTime - Duration on u64 seconds.  Below zero the build decides: with
\* overflow checks the subtraction panics, without them it wraps around.
SubDuration(time, secs, underflow) ==
    IF time >= secs THEN Some(time - secs)
    ELSE IF underflow = "wrap" THEN Some(time - secs + U64_MAX + 1)
    ELSE NoTime

\* Lifetime::seconds(s, maybe_not_before), with the clock reading now.
Lifetime_seconds(s, maybe_not_before, now, underflow) ==
    LET not_before == IF maybe_not_before.some THEN maybe_not_before.v ELSE now
        not_after  == checked_add(not_before, s)
        start      == SubDuration(not_before, HOUR, underflow)
    IN  IF ~not_after.some THEN TimeOverflow
        ELSE IF ~start.some THEN Panic
        ELSE Ok(Lifetime(start.v, not_after.v))

\* Mutant of Lifetime_within_lifetime: the upper bound is exclusive.
Lifetime_within_exclusive(self, time) ==
    self.not_before <= time /\ time < self.not_after

\* self.not_before <= time && time <= self.not_after
Lifetime_within_lifetime(self, time) ==
    self.not_before <= time /\ time <= self.not_after

LifetimeInit ==
    /\ \/ call \in SecondsCalls
       \/ call \in WithinCalls
    /\ ret = Pending

seconds ==
    /\ call.fn = "seconds"
    /\ ret = Pending
    /\ \E underflow \in {"panic", "wrap"} :
           ret' = Lifetime_seconds(call.s, call.maybe_not_before, call.now, underflow)
    /\ UNCHANGED <<call, storeVars, treeVars, groupVars>>

within_lifetime ==
    /\ call.fn = "within_lifetime"
    /\ ret = Pending
    /\ ret' = Ok(Lifetime_within_lifetime(call.lifetime, call.time))
    /\ UNCHANGED <<call, storeVars, treeVars, groupVars>>

(***************************************************************************)
(* The ratchet tree (TreeNodeStore) and CommitApplier.  A tree is a        *)
(* function from the slot indices 0..2n-2 to slots; even indices are leaf  *)
(* slots, odd indices parent slots.  Keys are small numbers; digests are   *)
(* not modelled, only whether the provider computes and confirms them.     *)
(***************************************************************************)

\* The tree never holds more than MaxSlots slots.
MaxSlots == 7

\* A commit carries at most MaxProposals proposals.
MaxProposals == 1

Blank == [kind |-> "blank", key |-> 0, unmerged |-> {}]

LeafNode(key) == [kind |-> "leaf", key |-> key, unmerged |-> {}]

ParentNode(key, unmerged) == [kind |-> "parent", key |-> key, unmerged |-> unmerged]

\* A key that differs from the one it replaces.
FreshKey(key) == IF key = 1 THEN 2 ELSE 1

Err(kind) == [tag |-> "Err", val |-> kind]

SlotCount(t) == Cardinality(DOMAIN t)

LeafSlots(t) == { i \in DOMAIN t : i % 2 = 0 }

\* The height of slot i: 0 for a leaf.
RECURSIVE Level(_)
Level(i) == IF i % 2 = 0 THEN 0 ELSE 1 + Level((i - 1) \div 2)

\* The slots of the subtree rooted at slot i.
Subtree(i) == (i - (2^Level(i) - 1))..(i + (2^Level(i) - 1))

\* The ancestors of a leaf slot, from its parent up to the root.
DirectPathSet(t, leaf) ==
    { i \in DOMAIN t : i % 2 = 1 /\ leaf \in Subtree(i) }

RECURSIVE SortByLevel(_)
SortByLevel(slots) ==
    IF slots = {} THEN <<>>
    ELSE LET low == CHOOSE i \in slots : \A j \in slots : Level(i) <= Level(j)
         IN  <<low>> \o SortByLevel(slots \ {low})

direct_path(t, leaf) == SortByLevel(DirectPathSet(t, leaf))

set_leaf(t, index, node) == [t EXCEPT ![index] = node]

set_parent(t, index, node) == [t EXCEPT ![index] = node]

\* The tree of the initial member alone.
OneLeafTree == [i \in {0} |-> LeafNode(1)]

\* Mutant of add_leaf: the blank leaf slots are scanned from the right.
add_leaf_rightmost(t, node) ==
    LET s      == SlotCount(t)
        blanks == { i \in LeafSlots(t) : t[i] = Blank }
        grown  == [i \in 0..(2 * s) |-> IF i < s THEN t[i] ELSE Blank]
        room   == IF blanks # {} THEN t ELSE grown
        index  == IF blanks # {}
                  THEN CHOOSE i \in blanks : \A j \in blanks : j <= i
                  ELSE s + 1
        path   == DirectPathSet(room, index)
    IN  [tree  |-> [i \in DOMAIN room |->
                       IF i = index THEN node
                       ELSE IF i \in path /\ room[i].kind = "parent"
                       THEN ParentNode(room[i].key, room[i].unmerged \cup {index})
                       ELSE room[i]],
         index |-> index]

\* add_leaf: the first blank leaf slot, else the capacity is doubled and
\* the first new leaf slot is taken; every parent on the new leaf's direct
\* path gains the leaf among its unmerged leaves.
add_leaf(t, node) ==
    LET s      == SlotCount(t)
        blanks == { i \in LeafSlots(t) : t[i] = Blank }
        grown  == [i \in 0..(2 * s) |-> IF i < s THEN t[i] ELSE Blank]
        room   == IF blanks # {} THEN t ELSE grown
        index  == IF blanks # {}
                  THEN CHOOSE i \in blanks : \A j \in blanks : i <= j
                  ELSE s + 1
        path   == DirectPathSet(room, index)
    IN  [tree  |-> [i \in DOMAIN room |->
                       IF i = index THEN node
                       ELSE IF i \in path /\ room[i].kind = "parent"
                       THEN ParentNode(room[i].key, room[i].unmerged \cup {index})
                       ELSE room[i]],
         index |-> index]

\* Mutant of Trim: the slot count is halved rounding up, so the root of the
\* old tree stays as a trailing slot.
Trim_roundup(t) ==
    LET s == SlotCount(t)
    IN  IF s > 1 /\ \A i \in ((s + 1) \div 2)..(s - 1) : t[i] = Blank
        THEN [i \in 0..(((s + 1) \div 2) - 1) |-> t[i]]
        ELSE t

\* Trailing capacity is halved while the whole upper half is blank.
RECURSIVE Trim(_)
Trim(t) ==
    LET s == SlotCount(t)
    IN  IF s > 1 /\ \A i \in ((s + 1) \div 2)..(s - 1) : t[i] = Blank
        THEN Trim([i \in 0..(((s - 1) \div 2) - 1) |-> t[i]])
        ELSE t

\* remove_leaf: InvalidLeafIndex for a blank or out-of-range slot; else the
\* leaf is blanked, it leaves the unmerged leaves of its ancestors, an
\* ancestor with no member left beneath it is blanked, and trailing blank
\* capacity is trimmed.
remove_leaf(t, index) ==
    IF index \notin LeafSlots(t) \/ t[index] = Blank
    THEN [tree |-> t, res |-> Err("InvalidLeafIndex")]
    ELSE LET path == DirectPathSet(t, index)
             Members(i) == { l \in Subtree(i) \cap LeafSlots(t) :
                             l # index /\ t[l] # Blank }
             cut == [i \in DOMAIN t |->
                       IF i = index THEN Blank
                       ELSE IF i \in path /\ t[i].kind = "parent"
                       THEN IF Members(i) = {} THEN Blank
                            ELSE ParentNode(t[i].key, t[i].unmerged \ {index})
                       ELSE t[i]]
         IN  [tree |-> Trim(cut), res |-> Ok(index)]

\* A proposal: remove or update of a leaf slot, or add of a new member.
Proposal(kind, leaf) == [kind |-> kind, leaf |-> leaf]

\* The proposals a commit on tree t may carry; the leaf slot past the end
\* of the tree stands for the indices out of range.
ProposalPool(t) ==
    { Proposal("remove", i) : i \in { j \in 0..(SlotCount(t) + 1) : j % 2 = 0 } }
        \cup { Proposal("add", 0) }
        \cup { Proposal("update", i) : i \in LeafSlots(t) }

ProposalLists(t) == UNION { [1..n -> ProposalPool(t)] : n \in 0..MaxProposals }

\* Where an external call fails during a commit: nowhere, at the i-th call
\* of the credential validator, at the provider's derivation of the i-th
\* path level, at its parent-hash computation, or the parent hashes do not
\* verify.
CommitFaults(proposals) ==
    { [at |-> a, i |-> 0] : a \in {"none", "hash", "verify"} }
        \cup { [at |-> "validate", i |-> j] :
               j \in 1..Cardinality({ k \in 1..Len(proposals) :
                                      proposals[k].kind # "remove" }) }
        \cup { [at |-> "crypto", i |-> j] : j \in 1..Level((MaxSlots - 1) \div 2) }

IsRemove(p) == p.kind = "remove"

IsAdd(p) == p.kind = "add"

IsUpdate(p) == p.kind = "update"

\* Step 2's order: the removes, then the adds, then the updates.
Ordered(proposals) ==
    SelectSeq(proposals, IsRemove) \o SelectSeq(proposals, IsAdd)
        \o SelectSeq(proposals, IsUpdate)

\* Mutant of apply_proposals: a proposal whose credential the validator
\* rejects is skipped and the batch carries on.
RECURSIVE apply_proposals_skip(_, _, _, _, _)
apply_proposals_skip(w, proposals, k, calls, fault) ==
    IF k > Len(proposals) THEN [tree |-> w, res |-> Ok(0)]
    ELSE
      LET p        == proposals[k]
          rejected == fault.at = "validate" /\ fault.i = calls + 1
      IN
      CASE p.kind = "remove" ->
             LET out == remove_leaf(w, p.leaf)
             IN  IF out.res.tag = "Err" THEN [tree |-> w, res |-> out.res]
                 ELSE apply_proposals_skip(out.tree, proposals, k + 1, calls, fault)
        [] p.kind = "add" ->
             IF rejected
             THEN apply_proposals_skip(w, proposals, k + 1, calls + 1, fault)
             ELSE apply_proposals_skip(add_leaf(w, LeafNode(1)).tree, proposals,
                                       k + 1, calls + 1, fault)
        [] OTHER ->
             IF p.leaf \notin LeafSlots(w) \/ w[p.leaf] = Blank
             THEN [tree |-> w, res |-> Err("InvalidLeafIndex")]
             ELSE IF rejected
             THEN apply_proposals_skip(w, proposals, k + 1, calls + 1, fault)
             ELSE apply_proposals_skip(
                      set_leaf(w, p.leaf, LeafNode(FreshKey(w[p.leaf].key))),
                      proposals, k + 1, calls + 1, fault)

\* Step 2 on the working copy w from proposal k on; calls counts the calls
\* of the credential validator made so far.  The first malformed or
\* rejected proposal ends the batch.
RECURSIVE apply_proposals(_, _, _, _, _)
apply_proposals(w, proposals, k, calls, fault) ==
    IF k > Len(proposals) THEN [tree |-> w, res |-> Ok(0)]
    ELSE
      LET p        == proposals[k]
          rejected == fault.at = "validate" /\ fault.i = calls + 1
      IN
      CASE p.kind = "remove" ->
             LET out == remove_leaf(w, p.leaf)
             IN  IF out.res.tag = "Err" THEN [tree |-> w, res |-> out.res]
                 ELSE apply_proposals(out.tree, proposals, k + 1, calls, fault)
        [] p.kind = "add" ->
             IF rejected THEN [tree |-> w, res |-> Err("CredentialRejected")]
             ELSE apply_proposals(add_leaf(w, LeafNode(1)).tree, proposals,
                                  k + 1, calls + 1, fault)
        [] OTHER ->
             IF p.leaf \notin LeafSlots(w) \/ w[p.leaf] = Blank
             THEN [tree |-> w, res |-> Err("InvalidLeafIndex")]
             ELSE IF rejected THEN [tree |-> w, res |-> Err("CredentialRejected")]
             ELSE apply_proposals(
                      set_leaf(w, p.leaf, LeafNode(FreshKey(w[p.leaf].key))),
                      proposals, k + 1, calls + 1, fault)

\* Step 3 on the working copy from path level j on: each parent on the
\* committer's direct path gets the key derived for it (derived keys are
\* not told apart), and its unmerged leaves are cleared.
RECURSIVE apply_path(_, _, _, _)
apply_path(w, path, j, fault) ==
    IF j > Len(path) THEN [tree |-> w, res |-> Ok(0)]
    ELSE IF fault.at = "crypto" /\ fault.i = j
    THEN [tree |-> w, res |-> Err("CryptoProviderError")]
    ELSE apply_path(
             set_parent(w, path[j], ParentNode(1, {})),
             path, j + 1, fault)

\* Mutant of Discard: the tree was mutated in place and is left as it is.
Discard_inplace(prior, working) == working

\* A failed commit discards the working copy: the prior tree stays.
Discard(prior, working) == prior

\* apply_commit on tree t: the tree afterwards and the result.
Commit(t, proposals, committer_leaf, fault) ==
    LET batch == apply_proposals(t, Ordered(proposals), 1, 0, fault)
    IN  IF batch.res.tag = "Err"
        THEN [tree |-> Discard(t, batch.tree), res |-> batch.res]
        ELSE IF \/ committer_leaf \notin LeafSlots(batch.tree)
                \/ batch.tree[committer_leaf] = Blank
        THEN [tree |-> Discard(t, batch.tree), res |-> Err("InvalidLeafIndex")]
        ELSE
          LET path == apply_path(batch.tree, direct_path(batch.tree, committer_leaf),
                                 1, fault)
          IN  IF path.res.tag = "Err"
              THEN [tree |-> Discard(t, path.tree), res |-> path.res]
              ELSE IF fault.at = "hash"
              THEN [tree |-> Discard(t, path.tree), res |-> Err("CryptoProviderError")]
              ELSE IF fault.at = "verify"
              THEN [tree |-> Discard(t, path.tree), res |-> Err("InvalidParentHash")]
              ELSE [tree |-> path.tree, res |-> Ok(SlotCount(path.tree))]

Idle == [op |-> "idle"]

TreeInit ==
    /\ tree = OneLeafTree
    /\ commit = Idle

\* The two members of a group.
Members == {1, 2}

\* No second member at work: its tree is the initial one and no commit has
\* been delivered.
GroupIdle ==
    /\ peer = OneLeafTree
    /\ log = <<>>
    /\ applied = [m \in Members |-> 0]
    /\ faulted = {}

\* One commit attempt at a time: the next begins once the caller has taken
\* the result of the last.
apply_commit(proposals, committer_leaf, fault) ==
    LET out == Commit(tree, proposals, committer_leaf, fault)
    IN  /\ commit = Idle
        /\ SlotCount(out.tree) <= MaxSlots
        /\ tree' = out.tree
        /\ commit' = [op |-> "apply_commit", proposals |-> proposals,
                      committer_leaf |-> committer_leaf, fault |-> fault,
                      res |-> out.res, before |-> tree]
        /\ UNCHANGED <<storeVars, lifetimeVars, groupVars>>

\* The attempt is over: the caller has the result.
finish_attempt ==
    /\ commit # Idle
    /\ commit' = Idle
    /\ UNCHANGED <<tree, storeVars, lifetimeVars, groupVars>>

\* The leaf nodes given to add_leaf.
LeafNodes == { LeafNode(1), LeafNode(2) }

NoFault == [at |-> "none", i |-> 0]

\* The node store driven call by call, as CommitApplier drives it: a member
\* joins, a member leaves, a member's path update sets the parents above it.
AddLeaf(node) ==
    LET out == add_leaf(tree, node)
    IN  /\ SlotCount(out.tree) <= MaxSlots
        /\ tree' = out.tree
        /\ commit' = [op |-> "add_leaf", node |-> node, index |-> out.index,
                      res |-> Ok(out.index), before |-> tree]
        /\ UNCHANGED <<storeVars, lifetimeVars, groupVars>>

RemoveLeaf(index) ==
    LET out == remove_leaf(tree, index)
    IN  /\ tree' = out.tree
        /\ commit' = [op |-> "remove_leaf", node |-> Blank, index |-> index,
                      res |-> out.res, before |-> tree]
        /\ UNCHANGED <<storeVars, lifetimeVars, groupVars>>

UpdatePath(leaf) ==
    /\ tree[leaf] # Blank
    /\ tree' = apply_path(tree, direct_path(tree, leaf), 1, NoFault).tree
    /\ commit' = [op |-> "update_path", node |-> tree[leaf], index |-> leaf,
                  res |-> Ok(leaf), before |-> tree]
    /\ UNCHANGED <<storeVars, lifetimeVars, groupVars>>

\* A group delivers at most MaxCommits commits.
MaxCommits == 2

\* The group of two: the initial member has added the second.
TwoMemberTree == Commit(OneLeafTree, <<Proposal("add", 0)>>, 0, NoFault).tree

GroupCommit(proposals, committer_leaf) ==
    [proposals |-> proposals, committer_leaf |-> committer_leaf]

\* The commits the members send: single proposals, and lists that are not
\* in the order of their kinds.
GroupCommits ==
    { GroupCommit(<<Proposal("add", 0)>>, 0),
      GroupCommit(<<Proposal("remove", 2)>>, 0),
      GroupCommit(<<Proposal("remove", 4)>>, 0),
      GroupCommit(<<Proposal("update", 0)>>, 2),
      GroupCommit(<<Proposal("add", 0), Proposal("remove", 2)>>, 0),
      GroupCommit(<<Proposal("update", 2), Proposal("add", 0)>>, 0),
      GroupCommit(<<Proposal("remove", 0)>>, 2),
      GroupCommit(<<Proposal("update", 0), Proposal("add", 0)>>, 2),
      GroupCommit(<<Proposal("add", 0), Proposal("remove", 0)>>, 2),
      GroupCommit(<<Proposal("add", 0), Proposal("add", 0)>>, 0) }

\* Each member's process owns one tree instance.
TreeOf(m) == IF m = 1 THEN tree ELSE peer

GroupInit ==
    /\ tree = TwoMemberTree
    /\ peer = TwoMemberTree
    /\ commit = Idle
    /\ log = <<>>
    /\ applied = [m \in Members |-> 0]
    /\ faulted = {}

\* A member that has applied every commit delivered so far sends the next:
\* one that applies to its tree.  The group orders it after the others.
send_commit(m, c) ==
    /\ Len(log) < MaxCommits
    /\ applied[m] = Len(log)
    /\ LET out == Commit(TreeOf(m), c.proposals, c.committer_leaf, NoFault)
       IN  /\ out.res.tag = "Ok"
           /\ SlotCount(out.tree) <= MaxSlots
    /\ log' = Append(log, c)
    /\ UNCHANGED <<tree, commit, peer, applied, faulted, storeVars, lifetimeVars>>

\* Member m applies the next commit of the log to its own tree, with the
\* failures of its own provider and validator; a failed attempt leaves the
\* commit to be tried again.
receive_commit(m) ==
    /\ applied[m] < Len(log)
    /\ \E fault \in CommitFaults(log[applied[m] + 1].proposals) :
         LET c   == log[applied[m] + 1]
             out == Commit(TreeOf(m), c.proposals, c.committer_leaf, fault)
         IN  /\ IF m = 1
                THEN tree' = out.tree /\ UNCHANGED peer
                ELSE peer' = out.tree /\ UNCHANGED tree
             /\ applied' = [applied EXCEPT
                               ![m] = IF out.res.tag = "Ok" THEN @ + 1 ELSE @]
             /\ faulted' = IF out.res.tag = "Ok" THEN faulted ELSE faulted \cup {m}
             /\ commit' = [op |-> "receive_commit", member |-> m,
                           proposals |-> c.proposals,
                           committer_leaf |-> c.committer_leaf, fault |-> fault,
                           res |-> out.res, before |-> TreeOf(m)]
             /\ UNCHANGED <<log, storeVars, lifetimeVars>>

Init == StoreInit /\ LifetimeIdle /\ TreeInit /\ GroupIdle

Next ==
    \/ \E key \in KeyPool, value \in Values, ok \in BOOLEAN : insert(key, value, ok)
    \/ \E key \in KeyPool, ok \in BOOLEAN : get(key, ok)
    \/ \E key \in KeyPool, ok \in BOOLEAN : delete(key, ok)
    \/ \E key_prefix \in Prefixes, ok \in BOOLEAN : get_by_prefix(key_prefix, ok)
    \/ \E key_prefix \in Prefixes, ok \in BOOLEAN : delete_by_prefix(key_prefix, ok)

Spec == Init /\ [][Next]_vars

\* The store driven by single inserts, deletes and batches.
NextTx ==
    \/ \E key \in TxKeys, value \in Values, ok \in BOOLEAN : insert(key, value, ok)
    \/ \E key \in TxKeys, ok \in BOOLEAN : delete(key, ok)
    \/ \E items \in Batches : \E fault \in Faults(items) : transact_insert(items, fault)

SpecTx == Init /\ [][NextTx]_vars

\* Lifetime's functions, each applied to one drawn call.
InitLifetime == StoreInit /\ LifetimeInit /\ TreeInit /\ GroupIdle

NextLifetime ==
    \/ seconds
    \/ within_lifetime

SpecLifetime == InitLifetime /\ [][NextLifetime]_vars

\* A commit arrives: any proposal list, committer and failure.
commit_attempt ==
    /\ commit = Idle
    /\ \E proposals \in ProposalLists(tree) :
         \E committer_leaf \in LeafSlots(tree) \cup {SlotCount(tree) + 1} :
           \E fault \in CommitFaults(proposals) :
             apply_commit(proposals, committer_leaf, fault)

\* One member applying commit after commit to its tree.
NextCommit ==
    \/ finish_attempt
    \/ commit_attempt

SpecCommit == Init /\ [][NextCommit]_vars

\* Members join and leave one at a time, from the tree of the initial
\* member; the leaf slot past the end stands for the indices out of range.
NextLeaves ==
    \/ \E node \in LeafNodes : AddLeaf(node)
    \/ \E index \in LeafSlots(tree) \cup {SlotCount(tree) + 1} : RemoveLeaf(index)
    \/ \E leaf \in LeafSlots(tree) : UpdatePath(leaf)

SpecLeaves == Init /\ [][NextLeaves]_vars

\* Two members of one group, each applying the group's commits to its own
\* tree at its own pace.
InitMembers == StoreInit /\ LifetimeIdle /\ GroupInit

NextMembers ==
    \/ \E m \in Members, c \in GroupCommits : send_commit(m, c)
    \/ \E m \in Members : receive_commit(m)

SpecMembers == InitMembers /\ [][NextMembers]_vars

(***************************************************************************)
(* Properties of the single-key operations.                                *)
(***************************************************************************)

Returned(op) == last.op = op /\ last.res.tag = "Ok"

StoredKeys(rows) == { r[1] : r \in rows }

\* The call recorded in last may change what is stored under key.
Touches(key) ==
    \/ last.op \in {"insert", "delete"} /\ last.arg.key = key
    \/ last.op = "delete_by_prefix"

\* C1: after insert(k, v) returns Ok, get(k) returns Some(v), whether k was
\* absent or held another value before; and what get(k) returns is changed
\* by no call other than an insert or delete of k or a delete_by_prefix.
C1_InsertThenGet ==
    /\ Returned("insert") => SELECT_SQL(kvs, last.arg.key) = Some(last.arg.value)
    /\ \A key \in KeyPool :
         ~Touches(key) => SELECT_SQL(kvs, key) = SELECT_SQL(last.before, key)

\* An insert has overwritten a different value.
C1_Witness ==
    /\ Returned("insert")
    /\ SELECT_SQL(last.before, last.arg.key).some
    /\ SELECT_SQL(last.before, last.arg.key) # Some(last.arg.value)
    /\ SELECT_SQL(kvs, last.arg.key) = Some(last.arg.value)

\* C2: insert(k, v) returns 1 when k is absent or stored with another value
\* and 0 when the pair (k, v) is already stored; in the 0 case the store is
\* left exactly as it was.
C2_InsertCount ==
    Returned("insert") =>
        /\ last.res.val = IF Row(last.arg.key, last.arg.value) \in last.before
                          THEN 0 ELSE 1
        /\ last.res.val = 0 => kvs = last.before

\* An insert of a pair already stored has returned 0.
C2_Witness ==
    /\ Returned("insert")
    /\ Row(last.arg.key, last.arg.value) \in last.before
    /\ last.res.val = 0

\* C3: delete(k) returns 1 and removes the entry when k is stored, returns 0
\* and changes nothing when it is not; afterwards get(k) returns None and a
\* second delete(k) returns 0.
C3_Delete ==
    Returned("delete") =>
        /\ last.res.val = IF last.arg.key \in StoredKeys(last.before) THEN 1 ELSE 0
        /\ kvs = { r \in last.before : r[1] # last.arg.key }
        /\ SELECT_SQL(kvs, last.arg.key) = None
        /\ DELETE_SQL(kvs, last.arg.key).changes = 0

\* A delete has removed a stored key and left another row in place.
C3_Witness ==
    /\ Returned("delete")
    /\ last.res.val = 1
    /\ last.arg.key \in StoredKeys(last.before)
    /\ kvs # {}

(***************************************************************************)
(* Properties of the prefix operations.                                    *)
(***************************************************************************)

\* key starts with key_prefix, character for character.
StartsWith(key, key_prefix) ==
    /\ Len(key_prefix) <= Len(key)
    /\ SubSeq(key, 1, Len(key_prefix)) = key_prefix

\* C4: get_by_prefix(p) returns exactly the stored items whose key has p as
\* a literal prefix, also when p holds '%', '_' or '$'.
C4_PrefixExact ==
    Returned("get_by_prefix") =>
        last.res.val = { Item(r[1], r[2]) :
                         r \in { x \in kvs : StartsWith(x[1], last.arg.key) } }

\* C5: delete_by_prefix(p) deletes exactly the items whose key starts with
\* p, the set get_by_prefix(p) returned before the call, returns their
\* number, leaves every other item unchanged, and afterwards
\* get_by_prefix(p) is empty.
C5_DeleteByPrefix ==
    Returned("delete_by_prefix") =>
        LET gone == { r \in last.before : StartsWith(r[1], last.arg.key) }
        IN  /\ gone = SELECT_LIKE_SQL(last.before, PrefixPattern(last.arg.key))
            /\ kvs = last.before \ gone
            /\ last.res.val = Cardinality(gone)
            /\ SELECT_LIKE_SQL(kvs, PrefixPattern(last.arg.key)) = {}

(***************************************************************************)
(* Properties of transact_insert.                                          *)
(***************************************************************************)

BatchKeys(items) == { items[i].key : i \in 1..Len(items) }

\* The last position of key in items.
LastIndex(items, key) ==
    CHOOSE i \in 1..Len(items) :
        /\ items[i].key = key
        /\ \A j \in (i + 1)..Len(items) : items[j].key # key

\* What is stored under the key of item i when its turn comes: the value of
\* the nearest earlier item with that key, else what the table held.
Prior(rows, items, i) ==
    LET earlier == { j \in 1..(i - 1) : items[j].key = items[i].key }
    IN  IF earlier = {} THEN SELECT_SQL(rows, items[i].key)
        ELSE Some(items[CHOOSE j \in earlier : \A h \in earlier : h <= j].value)

\* The table and the summed counts after single inserts of the items from
\* item i on, in list order.
RECURSIVE InsertEach(_, _, _)
InsertEach(rows, items, i) ==
    IF i > Len(items) THEN [rows |-> rows, changes |-> 0]
    ELSE LET out  == INSERT_SQL(rows, items[i].key, items[i].value)
             rest == InsertEach(out.rows, items, i + 1)
         IN  [rows |-> rest.rows, changes |-> out.changes + rest.changes]

\* C6: a successful transact_insert(items) leaves the store single inserts
\* in list order would leave (the last value of a key wins, other keys are
\* untouched) and returns the sum of the counts those inserts would return;
\* a batch whose pairs are all stored returns 0 and changes nothing.
C6_BatchAsInserts ==
    Returned("transact_insert") =>
        LET items == last.arg.items
            keys  == BatchKeys(items)
        IN  /\ kvs = InsertEach(last.before, items, 1).rows
            /\ last.res.val = InsertEach(last.before, items, 1).changes
            /\ kvs = { r \in last.before : r[1] \notin keys }
                       \cup { Row(k, items[LastIndex(items, k)].value) : k \in keys }
            /\ last.res.val = Cardinality({ i \in 1..Len(items) :
                                  Prior(last.before, items, i) # Some(items[i].value) })
            /\ (\A i \in 1..Len(items) :
                    Row(items[i].key, items[i].value) \in last.before)
                 => last.res.val = 0 /\ kvs = last.before

\* A batch naming one key twice, with different values, has been stored.
C6_Witness ==
    /\ Returned("transact_insert")
    /\ Len(last.arg.items) = 2
    /\ last.arg.items[1].key = last.arg.items[2].key
    /\ last.arg.items[1].value # last.arg.items[2].value
    /\ last.res.val = 2

\* C7: when starting the transaction, an item's insert or the commit fails,
\* transact_insert returns an error and the store holds exactly what it
\* held before the call.
C7_BatchAllOrNothing ==
    last.op = "transact_insert" =>
        /\ last.arg.fault.at # "none" <=> last.res.tag = "Err"
        /\ last.res.tag = "Err" => kvs = last.before

\* The second insert of a batch failed after the first had changed a row.
C7_Witness ==
    /\ last.op = "transact_insert"
    /\ last.res.tag = "Err"
    /\ last.arg.fault = [at |-> "execute", i |-> 2]
    /\ INSERT_SQL(last.before, last.arg.items[1].key,
                  last.arg.items[1].value).changes = 1
    /\ kvs = last.before

(***************************************************************************)
(* Properties of Lifetime.                                                 *)
(***************************************************************************)

\* The reference time of a seconds call.
Reference == IF call.maybe_not_before.some THEN call.maybe_not_before.v ELSE call.now

\* C8: seconds(s, maybe_not_before) returns Err(TimeOverflow) whenever the
\* reference time plus s exceeds the u64 range, and a Lifetime it returns
\* has the true sum as not_after, never a wrapped one.
C8_SecondsOverflow ==
    (call.fn = "seconds" /\ ret # Pending) =>
        /\ Reference + call.s > U64_MAX => ret = TimeOverflow
        /\ ret.tag = "Ok" => ret.val.not_after = Reference + call.s

\* A call whose sum leaves the range has returned TimeOverflow.
C8_Witness ==
    /\ call.fn = "seconds"
    /\ Reference + call.s > U64_MAX
    /\ ret = TimeOverflow

\* C9: within_lifetime(time) is true exactly when time lies in
\* not_before..not_after; of a window that is not empty it is true at
\* not_before and at not_after, false one second before not_before and one
\* second after not_after.
C9_WithinLifetime ==
    (call.fn = "within_lifetime" /\ ret # Pending) =>
        LET self == call.lifetime
        IN  /\ ret.val = (call.time \in self.not_before..self.not_after)
            /\ self.not_before <= self.not_after =>
                 /\ Lifetime_within_lifetime(self, self.not_before)
                 /\ Lifetime_within_lifetime(self, self.not_after)
            /\ self.not_before > 0 =>
                 ~Lifetime_within_lifetime(self, self.not_before - 1)
            /\ self.not_after < U64_MAX =>
                 ~Lifetime_within_lifetime(self, self.not_after + 1)

\* The time asked about is the last second of a window that is not empty.
C9_Witness ==
    /\ call.fn = "within_lifetime"
    /\ call.lifetime.not_before < call.lifetime.not_after
    /\ call.time = call.lifetime.not_after
    /\ ret = Ok(TRUE)

(***************************************************************************)
(* Properties of apply_commit.                                             *)
(***************************************************************************)

MemberSlots(t) == { i \in LeafSlots(t) : t[i] # Blank }

Count(proposals, kind) ==
    Cardinality({ k \in 1..Len(proposals) : proposals[k].kind = kind })

\* The number of update proposals naming leaf slot i.
UpdatesOf(proposals, i) ==
    Cardinality({ k \in 1..Len(proposals) :
                  proposals[k].kind = "update" /\ proposals[k].leaf = i })

BlankLeaves(t) == { i \in LeafSlots(t) : t[i] = Blank }

\* C11: after any sequence of add_leaf and remove_leaf from the one-leaf
\* tree, doublings and halvings of the capacity included, the slots are
\* 0..2n-2, their number is odd and the leaf slots number (slots + 1) / 2.
C11_SlotCountOdd ==
    /\ DOMAIN tree = 0..(SlotCount(tree) - 1)
    /\ SlotCount(tree) % 2 = 1
    /\ Cardinality(LeafSlots(tree)) = (SlotCount(tree) + 1) \div 2

\* A remove_leaf has halved the capacity twice, from seven slots to one,
\* the seven having come from two doublings.
C11_Witness ==
    /\ commit.op = "remove_leaf"
    /\ commit.res.tag = "Ok"
    /\ SlotCount(commit.before) = 7
    /\ SlotCount(tree) = 1
    /\ tree[0] # Blank

\* The three-member tree of five slots: leaf0, parent1, leaf2, parent3,
\* leaf4.  Two doublings from one slot give seven slots, so this tree is
\* handed to add_leaf as it stands.
FiveSlotTree ==
    [i \in 0..4 |-> IF i % 2 = 0 THEN LeafNode(1) ELSE ParentNode(1, {})]

\* What add_leaf does, read off one call: the lowest blank leaf slot and no
\* growth when a leaf slot is blank, else growth and the first new leaf
\* slot; the node is in the slot and no other leaf slot has changed.
AddLeafRule ==
    commit.op = "add_leaf" =>
        LET before == commit.before
            blanks == BlankLeaves(before)
        IN  /\ blanks # {} =>
                  /\ commit.index \in blanks
                  /\ \A j \in blanks : commit.index <= j
                  /\ SlotCount(tree) = SlotCount(before)
            /\ blanks = {} =>
                  /\ commit.index = SlotCount(before) + 1
                  /\ SlotCount(tree) = 2 * SlotCount(before) + 1
            /\ tree[commit.index] = commit.node
            /\ \A i \in LeafSlots(before) \ {commit.index} : tree[i] = before[i]
            /\ \A i \in LeafSlots(tree) \ (LeafSlots(before) \cup {commit.index}) :
                  tree[i] = Blank
            /\ SlotCount(before) = 1 /\ blanks = {} =>
                  SlotCount(tree) = 3 /\ commit.index = 2

\* add_leaf right after a remove_leaf: of two members one was removed and
\* the add has the freed index, the tree three slots as before the removal;
\* of the members at leaf0, leaf2 and leaf4 the one at leaf2 was removed and
\* the add has leaf2, leaf6 stays blank and the tree does not grow.
ReAdd ==
    (commit.op = "remove_leaf" /\ commit.res.tag = "Ok" /\ commit'.op = "add_leaf") =>
        /\ (SlotCount(commit.before) = 3 /\ BlankLeaves(commit.before) = {}) =>
              /\ commit'.index = commit.index
              /\ SlotCount(tree') = 3
        /\ (SlotCount(commit.before) = 7 /\ BlankLeaves(commit.before) = {6}
                /\ commit.index = 2) =>
              /\ commit'.index = 2
              /\ SlotCount(tree') = 7
              /\ tree'[6] = Blank

\* C12: add_leaf occupies the lowest-indexed blank leaf slot and grows the
\* tree only when no leaf slot is blank: a second leaf grows one slot to
\* three; removing one of two members and adding again gives the freed
\* index back with three slots and no more; in the three-member tree with
\* leaf2 removed the next add is assigned leaf2, not leaf6.
C12_AddLeafLowestBlank ==
    /\ [](AddLeafRule
            /\ add_leaf(set_leaf(FiveSlotTree, 2, Blank), LeafNode(2)).index = 2
            /\ SlotCount(add_leaf(set_leaf(FiveSlotTree, 2, Blank), LeafNode(2)).tree) = 5
            /\ add_leaf(FiveSlotTree, LeafNode(2)).index = 6)
    /\ [][ReAdd]_vars

\* An add_leaf has taken leaf2 of the three-member tree, leaf6 also blank.
C12_Witness ==
    /\ commit.op = "add_leaf"
    /\ SlotCount(commit.before) = 7
    /\ BlankLeaves(commit.before) = {2, 6}
    /\ commit.index = 2
    /\ SlotCount(tree) = 7
    /\ tree[6] = Blank

(***************************************************************************)
(* Properties of a group of members.                                       *)
(***************************************************************************)

\* One proposal applied to the node store.
ApplyOne(t, p) ==
    CASE p.kind = "remove" -> remove_leaf(t, p.leaf).tree
      [] p.kind = "add"    -> add_leaf(t, LeafNode(1)).tree
      [] OTHER             -> set_leaf(t, p.leaf, LeafNode(FreshKey(t[p.leaf].key)))

\* The proposals of one kind applied in list order, from proposal k on.
RECURSIVE ApplyKind(_, _, _, _)
ApplyKind(t, proposals, k, kind) ==
    IF k > Len(proposals) THEN t
    ELSE ApplyKind(IF proposals[k].kind = kind THEN ApplyOne(t, proposals[k]) ELSE t,
                   proposals, k + 1, kind)

\* All removes, then all adds, then all updates.
ByKind(t, proposals) ==
    ApplyKind(ApplyKind(ApplyKind(t, proposals, 1, "remove"),
                        proposals, 1, "add"),
              proposals, 1, "update")

====
